---- MODULE Spec2Model ----
(***************************************************************************)
(* A model of the SIFT_tracking utilities (utils.cpp) and of the           *)
(* SIFT_opt_tracker constructor (SIFT_opt_tracker.h).                      *)
(*                                                                         *)
(* Each function of the source is an operator or an action.  Six           *)
(* specifications share the module, one per group of functions:            *)
(*   SpecWin      ModifyTrackingWindows                                    *)
(*   SpecTracker  SIFT_opt_tracker::SIFT_opt_tracker                       *)
(*   SpecDist     descr_dist_sq                                            *)
(*   SpecArr      array_double                                             *)
(*   SpecVid      vid_view                                                 *)
(*   SpecFlow     getOptFlow / partial                                     *)
(***************************************************************************)
EXTENDS Integers, Sequences, FiniteSets, TLC

VARIABLES
    \* ModifyTrackingWindows
    tws,              \* numerator of TRACKING_WINDOW_SIZE over TWS_DEN
    trackingRect,     \* the target rectangle (argument)
    WholeImageSize,   \* the image size (argument)
    TrackingWindow,   \* the rectangle written through the out pointer
    wpc,              \* "call" before the call, "done" after it
    \* SIFT_opt_tracker
    Sfeat,            \* the template handed to the constructor
    preF,             \* the initial frame handed to the constructor
    tracker,          \* the constructed object, or NoTracker
    \* descr_dist_sq
    f1, f2,           \* the two features (arguments)
    dist,             \* the call's outcome: returned value and descriptor reads
    \* array_double
    n_arg, size_arg,  \* the arguments n and size
    array0,           \* *array at the call: "NULL" or "orig"
    array,            \* *array: "NULL", "orig" or "new"
    released,         \* how many times the original block has been released
    ret,              \* the returned value, NoRet before the call
    \* vid_view
    n,                \* number of images
    i,                \* index of the displayed frame
    playing,          \* 1 while playing, 0 while paused
    k,                \* the key returned by the last cvWaitKey
    mode,             \* the branch that received k: "playing" or "paused"
    win,              \* TRUE while the HighGUI window exists
    vpc,              \* "loop" inside the while loop, "returned" after it
    \* getOptFlow
    area,             \* OPTICAL_FLOW_POINT_AREA
    currentFrame,     \* size of the current frame
    preFrame,         \* size of the previous frame
    p,                \* the point (argument)
    fi, fj,           \* the loop counters i and j
    reads,            \* the pixel reads of the last loop body
    fpc               \* "loop" or "done"

winVars == <<tws, trackingRect, WholeImageSize, TrackingWindow, wpc>>
trkVars == <<Sfeat, preF, tracker>>
distVars == <<f1, f2, dist>>
arrVars == <<n_arg, size_arg, array0, array, released, ret>>
vidVars == <<n, i, playing, k, mode, win, vpc>>
flowVars == <<area, currentFrame, preFrame, p, fi, fj, reads, fpc>>
vars == <<winVars, trkVars, distVars, arrVars, vidVars, flowVars>>

----------------------------------------------------------------------------
(* Bounds of the model *)

MaxPos == 4         \* largest upper/left coordinate of a target rectangle
MaxExtent == 3      \* largest width/height of a target rectangle
MaxImage == 5       \* largest image width/height
MaxFeat == 2        \* largest number of template features
MaxFeatPos == 1     \* largest x/y of a template feature
MaxTrkPos == 2      \* largest upper/left of the constructor's rectangle
MaxTrkExtent == 2   \* largest width/height of the constructor's rectangle
MaxTrkImage == 4    \* largest width/height of the constructor's frame

Positions == -1 .. MaxPos
Extents == -1 .. MaxExtent
ImageSizes == 2 .. MaxImage

----------------------------------------------------------------------------
(* Arithmetic helpers *)

\* abs() of <stdlib.h>
abs(x) == IF x < 0 THEN -x ELSE x

\* TRACKING_WINDOW_SIZE is a compile-time fraction; the model writes it as
\* tws / TWS_DEN and lets tws range over TrackingWindowSizes.
TWS_DEN == 4
TrackingWindowSizes == {1, 2, 4}

\* cvRound(num / den): nearest integer, ties to the even neighbour
\* (the rounding mode of cvtsd2si / lrint).
cvRound(num, den) ==
    LET q == num \div den
        r == num - q * den
    IN  IF 2 * r < den THEN q
        ELSE IF 2 * r > den THEN q + 1
        ELSE IF q % 2 = 0 THEN q ELSE q + 1

\* cvRound(TRACKING_WINDOW_SIZE * extent)
Pad(t, extent) == cvRound(t * extent, TWS_DEN)

Rect(u, l, w, h) == [upper |-> u, left |-> l, width |-> w, height |-> h]

NoRect == Rect(0, 0, 0, 0)

----------------------------------------------------------------------------
(* ModifyTrackingWindows, utils.cpp 388-413 *)

\* lines 390-393: the padded rectangle
PaddedWindow(t, r) ==
    Rect(r.upper - Pad(t, r.height),
         r.left - Pad(t, r.width),
         r.width + 2 * Pad(t, r.width),
         r.height + 2 * Pad(t, r.height))

\* a plausible slip: an overflowing far edge is ignored
MTW_NoFarClamp(t, r, img) ==
    LET w0 == PaddedWindow(t, r)
        w1 == IF w0.upper < 0
              THEN [w0 EXCEPT !.height = @ - abs(w0.upper), !.upper = 0]
              ELSE w0
        w3 == IF w1.left < 0
              THEN [w1 EXCEPT !.width = @ - abs(w1.left), !.left = 0]
              ELSE w1
    IN  w3

\* a plausible slip: a negative near edge is translated instead of shrunk
MTW_Translate(t, r, img) ==
    LET w0 == PaddedWindow(t, r)
        w1 == IF w0.upper < 0 THEN [w0 EXCEPT !.upper = 0] ELSE w0
        w2 == IF w1.upper + w1.height > img.height
              THEN [w1 EXCEPT !.height =
                        @ - abs((w1.upper + w1.height) - img.height)]
              ELSE w1
        w3 == IF w2.left < 0 THEN [w2 EXCEPT !.left = 0] ELSE w2
        w4 == IF w3.left + w3.width > img.width
              THEN [w3 EXCEPT !.width =
                        @ - abs(w3.left + w3.width - img.width)]
              ELSE w3
    IN  w4

\* a plausible slip: the padding is dropped
MTW_NoPad(t, r, img) ==
    LET w1 == IF r.upper < 0
              THEN [r EXCEPT !.height = @ - abs(r.upper), !.upper = 0]
              ELSE r
        w2 == IF w1.upper + w1.height > img.height
              THEN [w1 EXCEPT !.height =
                        @ - abs((w1.upper + w1.height) - img.height)]
              ELSE w1
        w3 == IF w2.left < 0
              THEN [w2 EXCEPT !.width = @ - abs(w2.left), !.left = 0]
              ELSE w2
        w4 == IF w3.left + w3.width > img.width
              THEN [w3 EXCEPT !.width =
                        @ - abs(w3.left + w3.width - img.width)]
              ELSE w3
    IN  w4

\* the value left in *TrackingWindow; w0..w4 are the rectangle after each
\* statement group
ModifyTrackingWindows(t, r, img) ==
    LET w0 == PaddedWindow(t, r)
        \* lines 395-399
        w1 == IF w0.upper < 0
              THEN [w0 EXCEPT !.height = @ - abs(w0.upper), !.upper = 0]
              ELSE w0
        \* lines 400-403
        w2 == IF w1.upper + w1.height > img.height
              THEN [w1 EXCEPT !.height =
                        @ - abs((w1.upper + w1.height) - img.height)]
              ELSE w1
        \* lines 404-408
        w3 == IF w2.left < 0
              THEN [w2 EXCEPT !.width = @ - abs(w2.left), !.left = 0]
              ELSE w2
        \* lines 409-412
        w4 == IF w3.left + w3.width > img.width
              THEN [w3 EXCEPT !.width =
                        @ - abs(w3.left + w3.width - img.width)]
              ELSE w3
    IN  w4

InitWin ==
    /\ tws \in TrackingWindowSizes
    /\ trackingRect \in [upper : Positions, left : Positions,
                         width : Extents, height : Extents]
    /\ WholeImageSize \in [upper : {0}, left : {0},
                           width : ImageSizes, height : ImageSizes]
    /\ TrackingWindow = NoRect
    /\ wpc = "call"

CallModifyTrackingWindows ==
    /\ wpc = "call"
    /\ TrackingWindow' = ModifyTrackingWindows(tws, trackingRect, WholeImageSize)
    /\ wpc' = "done"
    /\ UNCHANGED <<tws, trackingRect, WholeImageSize>>
    /\ UNCHANGED <<trkVars, distVars, arrVars, vidVars, flowVars>>

----------------------------------------------------------------------------
(* SIFT_opt_tracker::SIFT_opt_tracker, SIFT_opt_tracker.h 11-25 *)

NoTracker == [constructed |-> FALSE]

Point2D(row, col) == [row |-> row, col |-> col]

Features == [x : 0 .. MaxFeatPos, y : 0 .. MaxFeatPos]

Templates == UNION {[1 .. len -> Features] : len \in 1 .. MaxFeat}

\* SIFT_feature::GetLength
GetLength(T) == Len(T)

\* SIFT_feature::GetFeat(i), i counted from 0
GetFeat(T, idx) == T[idx + 1]

\* a plausible slip: row and column of the flow points exchanged
OptflowInit_Swapped(T, r) ==
    [idx \in 1 .. GetLength(T) |->
        Point2D(GetFeat(T, idx - 1).x + r.left, GetFeat(T, idx - 1).y + r.upper)]

\* lines 20-23: one push_back per template feature, in order
OptflowInit(T, r) ==
    [idx \in 1 .. GetLength(T) |->
        Point2D(GetFeat(T, idx - 1).y + r.upper, GetFeat(T, idx - 1).x + r.left)]

\* lines 16-19: the constructor's own window arithmetic
CtorWindow(t, r) ==
    Rect(r.upper - Pad(t, r.height),
         r.left - Pad(t, r.width),
         r.width + Pad(t, r.width),
         r.height + Pad(t, r.height))

InitTracker ==
    /\ tws \in TrackingWindowSizes
    /\ trackingRect \in [upper : 0 .. MaxTrkPos, left : 0 .. MaxTrkPos,
                         width : 1 .. MaxTrkExtent, height : 1 .. MaxTrkExtent]
    /\ Sfeat \in Templates
    /\ preF \in [width : 3 .. MaxTrkImage, height : 3 .. MaxTrkImage]
    /\ tracker = NoTracker

Construct ==
    /\ ~tracker.constructed
    /\ tracker' = [constructed |-> TRUE,
                   tracking_template |-> Sfeat,
                   kd_root |-> GetLength(Sfeat),
                   TrackingWindow |-> CtorWindow(tws, trackingRect),
                   optflow |-> OptflowInit(Sfeat, trackingRect),
                   preFrame |-> preF]
    /\ UNCHANGED <<tws, trackingRect, Sfeat, preF>>
    /\ UNCHANGED <<WholeImageSize, TrackingWindow, wpc>>
    /\ UNCHANGED <<distVars, arrVars, vidVars, flowVars>>

----------------------------------------------------------------------------
(* descr_dist_sq, utils.cpp 368-386 *)

MaxD == 2           \* largest descriptor dimension
MaxVal == 2         \* largest descriptor component

\* DBL_MAX of <float.h>: the largest value of the number domain.  The model's
\* numbers are TLC integers, so it is the largest of those.
DBL_MAX == 2147483647

NoDist == [value |-> -1, reads |-> {}]

FeatureUnits == [d : 0 .. MaxD, descr : [0 .. MaxD - 1 -> 0 .. MaxVal]]

\* lines 380-384: the loop from index j on, dsq accumulated so far
RECURSIVE DistLoop(_, _, _, _, _)
DistLoop(descr1, descr2, j, d, dsq) ==
    IF j < d
    THEN LET diff == descr1[j] - descr2[j]
         IN  DistLoop(descr1, descr2, j + 1, d, dsq + diff * diff)
    ELSE dsq

\* a plausible slip: the difference is accumulated without being squared
descr_dist_sq_NoSquare(a, b) ==
    LET d == a.d
        RECURSIVE Loop(_, _)
        Loop(j, dsq) == IF j < d
                        THEN Loop(j + 1, dsq + (a.descr[j] - b.descr[j]))
                        ELSE dsq
    IN  IF b.d # d
        THEN [value |-> DBL_MAX, reads |-> {}]
        ELSE [value |-> Loop(0, 0),
              reads |-> {1, 2} \X (0 .. d - 1)]

\* the returned value, and the descriptor elements the call reads as pairs
\* <<feature, index>>
descr_dist_sq(a, b) ==
    LET d == a.d
    IN  IF b.d # d
        THEN [value |-> DBL_MAX, reads |-> {}]
        ELSE [value |-> DistLoop(a.descr, b.descr, 0, d, 0),
              reads |-> {1, 2} \X (0 .. d - 1)]

CallDescrDistSq ==
    /\ dist = NoDist
    /\ dist' = descr_dist_sq(f1, f2)
    /\ UNCHANGED <<f1, f2>>
    /\ UNCHANGED <<winVars, trkVars, arrVars, vidVars, flowVars>>

----------------------------------------------------------------------------
(* array_double, utils.cpp 165-181 *)

MaxN == 4           \* largest n
MaxSize == 4        \* largest element size

NoRet == -1

\* realloc( *array, 2 * n * size ) of the C library.  The result is the
\* returned pointer, what *array still refers to, and the number of times
\* realloc itself released the original block.
\*   bytes < 0 converts to a huge size_t: the request fails.
\*   bytes = 0 is implementation-defined: the block is released and NULL is
\*     returned (glibc, MSVC), or a minimal block is returned, or the request
\*     fails and the block is left alone.
\*   bytes > 0 succeeds, in place or by moving the block, or fails.
ReallocOutcomes(ptr, bytes) ==
    LET fail == [tmp |-> "NULL", relByRealloc |-> 0]
        moved == [tmp |-> "new", relByRealloc |-> IF ptr = "NULL" THEN 0 ELSE 1]
        inplace == [tmp |-> ptr, relByRealloc |-> 0]
        freedNull == [tmp |-> "NULL", relByRealloc |-> IF ptr = "NULL" THEN 0 ELSE 1]
    IN  IF bytes < 0 THEN {fail}
        ELSE IF bytes = 0 THEN {freedNull, moved, fail}
        ELSE IF ptr = "NULL" THEN {moved, fail}
        ELSE {moved, inplace, fail}

\* a plausible slip: the failure branch returns without releasing the block
array_double_Leak(ptr, nn, size, o) ==
    IF o.tmp = "NULL"
    THEN [array |-> ptr, released |-> o.relByRealloc, ret |-> 0]
    ELSE [array |-> o.tmp, released |-> o.relByRealloc, ret |-> nn * 2]

\* lines 169-180, given the outcome o of the realloc call
array_double(ptr, nn, size, o) ==
    IF o.tmp = "NULL"
    THEN [array |-> "NULL",
          released |-> o.relByRealloc + (IF ptr # "NULL" THEN 1 ELSE 0),
          ret |-> 0]
    ELSE [array |-> o.tmp, released |-> o.relByRealloc, ret |-> nn * 2]

CallArrayDouble ==
    /\ ret = NoRet
    /\ \E o \in ReallocOutcomes(array, 2 * n_arg * size_arg) :
          LET r == array_double(array, n_arg, size_arg, o)
          IN  /\ array' = r.array
              /\ released' = r.released
              /\ ret' = r.ret
    /\ UNCHANGED <<n_arg, size_arg, array0>>
    /\ UNCHANGED <<winVars, trkVars, distVars, vidVars, flowVars>>

----------------------------------------------------------------------------
(* vid_view, utils.cpp 265-341 *)

MaxImgs == 12       \* largest number of images

MIN(a, b) == IF a < b THEN a ELSE b
MAX(a, b) == IF a > b THEN a ELSE b

\* the key codes of the switch, lines 290-333
SpaceKey == 32
EscKeys == {27, 1048603}
BackspaceKey == 8
LeftKeys == {65288, 1113937}
RightKeys == {65363, 1113939}
PageUpKeys == {65365, 1113941}
PageDownKeys == {65366, 1113942}
\* cvWaitKey returns -1 when no key was pressed; 97 stands for any key
\* without a case
NoKey == -1
OtherKey == 97
Keys == {SpaceKey, BackspaceKey, NoKey, OtherKey} \cup EscKeys \cup LeftKeys
            \cup RightKeys \cup PageUpKeys \cup PageDownKeys

\* a plausible slip: the frame index advances without the MIN clamp
PlayingBody_NoClamp(ii, nn, key, closed) ==
    LET i1 == ii + 1
    IN  [i |-> i1,
         playing |-> IF key = SpaceKey \/ i1 = nn - 1 THEN 0 ELSE 1,
         win |-> ~closed]

\* a plausible slip: playback only pauses on the space key
PlayingBody_NoEndPause(ii, nn, key, closed) ==
    LET i1 == MIN(ii + 1, nn - 1)
    IN  [i |-> i1,
         playing |-> IF key = SpaceKey THEN 0 ELSE 1,
         win |-> ~closed]

\* lines 274-282: the playing branch, with the key returned by cvWaitKey(33)
\* and whether the user closed the window during the wait
PlayingBody(ii, nn, key, closed) ==
    LET i1 == MIN(ii + 1, nn - 1)
    IN  [i |-> i1,
         playing |-> IF key = SpaceKey \/ i1 = nn - 1 THEN 0 ELSE 1,
         win |-> ~closed]

\* lines 284-339: the paused branch, with the key returned by cvWaitKey(0).
\* Every case that shows an image calls cvNamedWindow first, which leaves
\* the window open.
PausedBody(ii, nn, key, closed) ==
    IF key = SpaceKey THEN [i |-> ii, playing |-> 1, win |-> ~closed]
    ELSE IF key \in EscKeys THEN [i |-> ii, playing |-> 0, win |-> FALSE]
    ELSE IF key = BackspaceKey THEN [i |-> 0, playing |-> 0, win |-> TRUE]
    ELSE IF key \in LeftKeys
        THEN [i |-> MAX(ii - 1, 0), playing |-> 0, win |-> TRUE]
    ELSE IF key \in RightKeys
        THEN [i |-> MIN(ii + 1, nn - 1), playing |-> 0, win |-> TRUE]
    ELSE IF key \in PageUpKeys
        THEN [i |-> MAX(ii - 10, 0), playing |-> 0, win |-> TRUE]
    ELSE IF key \in PageDownKeys
        THEN [i |-> MIN(ii + 10, nn - 1), playing |-> 0, win |-> TRUE]
    ELSE [i |-> ii, playing |-> 0, win |-> ~closed]

\* win_closed, lines 352-357
win_closed == IF ~win THEN 1 ELSE 0

InitVid ==
    /\ n \in 1 .. MaxImgs
    /\ i = 0
    /\ playing = 0
    /\ k = NoKey
    /\ mode = "start"
    /\ win = TRUE
    /\ vpc = "loop"

\* one pass of the while loop with playing # 0
PlayingIteration ==
    /\ vpc = "loop"
    /\ win_closed = 0
    /\ playing # 0
    /\ \E key \in Keys, closed \in BOOLEAN :
          LET r == PlayingBody(i, n, key, closed)
          IN  /\ i' = r.i
              /\ playing' = r.playing
              /\ win' = r.win
              /\ k' = key
    /\ mode' = "playing"
    /\ UNCHANGED <<n, vpc>>
    /\ UNCHANGED <<winVars, trkVars, distVars, arrVars, flowVars>>

\* one pass of the while loop with playing = 0; a window closed during
\* cvWaitKey(0) makes it return NoKey
PausedIteration ==
    /\ vpc = "loop"
    /\ win_closed = 0
    /\ playing = 0
    /\ \E key \in Keys, closed \in BOOLEAN :
          /\ closed => key = NoKey
          /\ LET r == PausedBody(i, n, key, closed)
             IN  /\ i' = r.i
                 /\ playing' = r.playing
                 /\ win' = r.win
                 /\ k' = key
    /\ mode' = "paused"
    /\ UNCHANGED <<n, vpc>>
    /\ UNCHANGED <<winVars, trkVars, distVars, arrVars, flowVars>>

\* the loop condition fails and vid_view returns
VidReturn ==
    /\ vpc = "loop"
    /\ win_closed = 1
    /\ vpc' = "returned"
    /\ UNCHANGED <<n, i, playing, k, mode, win>>
    /\ UNCHANGED <<winVars, trkVars, distVars, arrVars, flowVars>>

----------------------------------------------------------------------------
(* partial and getOptFlow, utils.cpp 423-469 *)

MaxArea == 4        \* largest OPTICAL_FLOW_POINT_AREA
MaxFlowImage == 7   \* largest frame width/height

\* OPTICAL_FLOW_POINT_AREA is a compile-time constant; the model lets it
\* range over OptFlowAreas.
OptFlowAreas == 2 .. MaxArea

\* the / of C on int: the quotient truncated toward zero
CDiv(a, b) == IF a >= 0 THEN a \div b ELSE -((-a) \div b)

\* -OPTICAL_FLOW_POINT_AREA/2 and OPTICAL_FLOW_POINT_AREA/2, line 442
LoopFirst(A) == CDiv(-A, 2)
LoopEnd(A) == CDiv(A, 2)

\* a plausible slip: the central difference spans two pixels on each side
partial_Wide(pt) ==
    {<<pt.row, pt.col + 2>>, <<pt.row, pt.col - 2>>,
     <<pt.row + 2, pt.col>>, <<pt.row - 2, pt.col>>}

\* lines 426-427: the pixels partial reads around pt, as <<row, col>>
partial(pt) ==
    {<<pt.row, pt.col + 1>>, <<pt.row, pt.col - 1>>,
     <<pt.row + 1, pt.col>>, <<pt.row - 1, pt.col>>}

\* lines 446-451: the pixels one loop body reads, as <<frame, row, col>>
BodyReads(pt, di, dj) ==
    LET q == Point2D(pt.row + di, pt.col + dj)
    IN  {<<"currentFrame", rc[1], rc[2]>> : rc \in partial(q)}
        \cup {<<"currentFrame", q.row, q.col>>, <<"preFrame", q.row, q.col>>}

FrameSizes == [width : MaxFlowImage - 1 .. MaxFlowImage,
               height : MaxFlowImage - 1 .. MaxFlowImage]

InitFlow ==
    /\ area \in OptFlowAreas
    /\ currentFrame \in FrameSizes
    /\ preFrame \in FrameSizes
    /\ p \in [row : 0 .. currentFrame.height - 1,
              col : 0 .. currentFrame.width - 1]
    /\ fi = LoopFirst(area)
    /\ fj = LoopFirst(area)
    /\ reads = {}
    /\ fpc = "loop"

\* one execution of the inner loop body, then the increments of j and i
FlowBody ==
    /\ fpc = "loop"
    /\ fi < LoopEnd(area)
    /\ fj < LoopEnd(area)
    /\ reads' = BodyReads(p, fi, fj)
    /\ IF fj + 1 < LoopEnd(area)
       THEN fj' = fj + 1 /\ fi' = fi
       ELSE fj' = LoopFirst(area) /\ fi' = fi + 1
    /\ UNCHANGED <<area, currentFrame, preFrame, p, fpc>>
    /\ UNCHANGED <<winVars, trkVars, distVars, arrVars, vidVars>>

\* the outer loop ends; lines 454-468 solve the 2x2 system and read no pixel
FlowSolve ==
    /\ fpc = "loop"
    /\ fi >= LoopEnd(area)
    /\ fpc' = "done"
    /\ reads' = {}
    /\ UNCHANGED <<area, currentFrame, preFrame, p, fi, fj>>
    /\ UNCHANGED <<winVars, trkVars, distVars, arrVars, vidVars>>

----------------------------------------------------------------------------
(* The specifications.  Each starts the variables of the other groups at a *)
(* fixed idle value and never changes them.                                *)

IdleWinArgs == tws = 1 /\ trackingRect = NoRect
IdleWinCall == WholeImageSize = NoRect /\ TrackingWindow = NoRect /\ wpc = "idle"
IdleTrk == Sfeat = <<>> /\ preF = [width |-> 0, height |-> 0] /\ tracker = NoTracker
IdleDist == f1 = [d |-> 0] /\ f2 = [d |-> 0] /\ dist = [value |-> 0, reads |-> {}]
IdleArr ==
    /\ n_arg = 0 /\ size_arg = 0 /\ array0 = "NULL" /\ array = "NULL"
    /\ released = 0 /\ ret = 0
IdleVid ==
    /\ n = 0 /\ i = 0 /\ playing = 0 /\ k = NoKey /\ mode = "idle"
    /\ win = FALSE /\ vpc = "idle"
IdleFlow ==
    /\ area = 0 /\ currentFrame = [width |-> 0, height |-> 0]
    /\ preFrame = [width |-> 0, height |-> 0] /\ p = Point2D(0, 0)
    /\ fi = 0 /\ fj = 0 /\ reads = {} /\ fpc = "idle"

InitDist ==
    /\ f1 \in FeatureUnits
    /\ f2 \in FeatureUnits
    /\ dist = NoDist

InitArr ==
    /\ n_arg \in -1 .. MaxN
    /\ size_arg \in 0 .. MaxSize
    /\ array0 \in {"NULL", "orig"}
    /\ array = array0
    /\ released = 0
    /\ ret = NoRet

WinInit == InitWin /\ IdleTrk /\ IdleDist /\ IdleArr /\ IdleVid /\ IdleFlow
WinNext == CallModifyTrackingWindows
SpecWin == WinInit /\ [][WinNext]_vars

TrackerInit ==
    InitTracker /\ IdleWinCall /\ IdleDist /\ IdleArr /\ IdleVid /\ IdleFlow
TrackerNext == Construct
SpecTracker == TrackerInit /\ [][TrackerNext]_vars

DistInit ==
    InitDist /\ IdleWinArgs /\ IdleWinCall /\ IdleTrk /\ IdleArr /\ IdleVid
    /\ IdleFlow
DistNext == CallDescrDistSq
SpecDist == DistInit /\ [][DistNext]_vars

ArrInit ==
    InitArr /\ IdleWinArgs /\ IdleWinCall /\ IdleTrk /\ IdleDist /\ IdleVid
    /\ IdleFlow
ArrNext == CallArrayDouble
SpecArr == ArrInit /\ [][ArrNext]_vars

VidInit ==
    InitVid /\ IdleWinArgs /\ IdleWinCall /\ IdleTrk /\ IdleDist /\ IdleArr
    /\ IdleFlow
VidNext == PlayingIteration \/ PausedIteration \/ VidReturn
SpecVid == VidInit /\ [][VidNext]_vars

FlowInit ==
    InitFlow /\ IdleWinArgs /\ IdleWinCall /\ IdleTrk /\ IdleDist /\ IdleArr
    /\ IdleVid
FlowNext == FlowBody \/ FlowSolve
SpecFlow == FlowInit /\ [][FlowNext]_vars

----------------------------------------------------------------------------
(* Properties of ModifyTrackingWindows, checked under SpecWin *)

\* the far edges of a rectangle
Bottom(r) == r.upper + r.height
Right(r) == r.left + r.width

\* C1: the window written by ModifyTrackingWindows has upper >= 0,
\* left >= 0, upper + height <= image height and left + width <= image
\* width, for every target rectangle and image size.
C1_WindowInsideImage ==
    wpc = "done" =>
        /\ TrackingWindow.upper >= 0
        /\ TrackingWindow.left >= 0
        /\ Bottom(TrackingWindow) <= WholeImageSize.height
        /\ Right(TrackingWindow) <= WholeImageSize.width

\* a call whose padded rectangle overflowed the image on all four sides and
\* that left a window of positive extent
C1_Witness ==
    /\ wpc = "done"
    /\ PaddedWindow(tws, trackingRect).upper < 0
    /\ PaddedWindow(tws, trackingRect).left < 0
    /\ Bottom(PaddedWindow(tws, trackingRect)) > WholeImageSize.height
    /\ Right(PaddedWindow(tws, trackingRect)) > WholeImageSize.width
    /\ TrackingWindow.width > 0
    /\ TrackingWindow.height > 0

\* the padded rectangle as the claim writes it
C2_Padded ==
    LET ph == cvRound(tws * trackingRect.height, TWS_DEN)
        pw == cvRound(tws * trackingRect.width, TWS_DEN)
    IN  [upper |-> trackingRect.upper - ph,
         left |-> trackingRect.left - pw,
         width |-> trackingRect.width + 2 * pw,
         height |-> trackingRect.height + 2 * ph]

\* the padded rectangle and the image share a region of positive area
C2_Overlaps ==
    /\ MAX(0, C2_Padded.upper) < MIN(WholeImageSize.height, Bottom(C2_Padded))
    /\ MAX(0, C2_Padded.left) < MIN(WholeImageSize.width, Right(C2_Padded))

\* C2: whenever the padded rectangle overlaps the image, the result of
\* ModifyTrackingWindows is the intersection of the padded rectangle with
\* [0, image width] x [0, image height].
C2_WindowIsClippedPadding ==
    (wpc = "done" /\ C2_Overlaps) =>
        /\ TrackingWindow.upper = MAX(0, C2_Padded.upper)
        /\ TrackingWindow.left = MAX(0, C2_Padded.left)
        /\ Bottom(TrackingWindow)
              = MIN(WholeImageSize.height, Bottom(C2_Padded))
        /\ Right(TrackingWindow)
              = MIN(WholeImageSize.width, Right(C2_Padded))

\* a call that had to shrink the window at a near edge and at a far edge
C2_Witness ==
    /\ wpc = "done"
    /\ C2_Overlaps
    /\ C2_Padded.upper < 0
    /\ Right(C2_Padded) > WholeImageSize.width
    /\ C2_Padded.left > 0
    /\ TrackingWindow.height < C2_Padded.height
    /\ TrackingWindow.width < C2_Padded.width

\* the target lies fully inside the image and has positive extent
C3_Interior ==
    /\ trackingRect.upper > 0
    /\ trackingRect.left > 0
    /\ Bottom(trackingRect) < WholeImageSize.height
    /\ Right(trackingRect) < WholeImageSize.width
    /\ trackingRect.width > 0
    /\ trackingRect.height > 0

\* C3 as stated: for a fully interior target the window strictly contains
\* the target on all four sides.
C3_StrictlyContains ==
    (wpc = "done" /\ C3_Interior) =>
        /\ TrackingWindow.upper < trackingRect.upper
        /\ TrackingWindow.left < trackingRect.left
        /\ Bottom(TrackingWindow) > Bottom(trackingRect)
        /\ Right(TrackingWindow) > Right(trackingRect)

\* C3 amended: for a fully interior target the window contains the target,
\* and the containment is strict on each axis whose rounded padding
\* cvRound(TRACKING_WINDOW_SIZE * extent) is at least 1.
C3_ContainsStrictIfPadded ==
    (wpc = "done" /\ C3_Interior) =>
        /\ TrackingWindow.upper <= trackingRect.upper
        /\ TrackingWindow.left <= trackingRect.left
        /\ Bottom(TrackingWindow) >= Bottom(trackingRect)
        /\ Right(TrackingWindow) >= Right(trackingRect)
        /\ Pad(tws, trackingRect.height) >= 1 =>
              /\ TrackingWindow.upper < trackingRect.upper
              /\ Bottom(TrackingWindow) > Bottom(trackingRect)
        /\ Pad(tws, trackingRect.width) >= 1 =>
              /\ TrackingWindow.left < trackingRect.left
              /\ Right(TrackingWindow) > Right(trackingRect)

\* an interior target padded on one axis and not on the other: strict
\* containment vertically, equality horizontally
C3_Witness ==
    /\ wpc = "done"
    /\ C3_Interior
    /\ Pad(tws, trackingRect.height) >= 1
    /\ Pad(tws, trackingRect.width) = 0
    /\ TrackingWindow.upper < trackingRect.upper
    /\ Bottom(TrackingWindow) > Bottom(trackingRect)
    /\ TrackingWindow.left = trackingRect.left
    /\ Right(TrackingWindow) = Right(trackingRect)

----------------------------------------------------------------------------
(* Properties of the SIFT_opt_tracker constructor, checked under           *)
(* SpecTracker                                                             *)

\* the bounds of the initial frame as a rectangle
FrameBounds == Rect(0, 0, preF.width, preF.height)

\* C4: the TrackingWindow stored by the constructor equals the window
\* ModifyTrackingWindows computes for the same rectangle and the bounds of
\* the initial frame.
C4_CtorWindowIsManagerWindow ==
    tracker.constructed =>
        tracker.TrackingWindow
            = ModifyTrackingWindows(tws, trackingRect, FrameBounds)

\* C5: after construction from a template of N features the optical-flow
\* list has N entries, and entry i is (row, col) =
\* (feature_i.y + rect.upper, feature_i.x + rect.left), in template order.
C5_OptflowPerFeature ==
    tracker.constructed =>
        /\ Len(tracker.optflow) = Len(Sfeat)
        /\ \A idx \in 0 .. Len(Sfeat) - 1 :
              /\ tracker.optflow[idx + 1].row
                    = Sfeat[idx + 1].y + trackingRect.upper
              /\ tracker.optflow[idx + 1].col
                    = Sfeat[idx + 1].x + trackingRect.left

\* a tracker built from two different features whose x and y differ, with a
\* rectangle whose upper and left differ
C5_Witness ==
    /\ tracker.constructed
    /\ Len(Sfeat) = 2
    /\ Sfeat[1] # Sfeat[2]
    /\ Sfeat[1].x # Sfeat[1].y
    /\ trackingRect.upper # trackingRect.left
    /\ Len(tracker.optflow) = 2

----------------------------------------------------------------------------
(* Properties of descr_dist_sq, checked under SpecDist *)

\* the sum over the first m dimensions of the squared differences
RECURSIVE SumSqDiff(_, _, _)
SumSqDiff(a, b, m) ==
    IF m = 0 THEN 0
    ELSE SumSqDiff(a, b, m - 1)
            + (a[m - 1] - b[m - 1]) * (a[m - 1] - b[m - 1])

\* C6: descr_dist_sq returns the sum of the squared per-dimension
\* differences when f1.d = f2.d, and DBL_MAX, which is larger than every
\* such sum, without reading a descriptor when f1.d # f2.d; every call
\* returns a number.
C6_DistanceOrSentinel ==
    dist # NoDist =>
        /\ dist.value \in Nat
        /\ f1.d = f2.d =>
              /\ dist.value = SumSqDiff(f1.descr, f2.descr, f1.d)
              /\ dist.value < DBL_MAX
        /\ f1.d # f2.d =>
              /\ dist.value = DBL_MAX
              /\ dist.reads = {}

\* a call on two features of equal dimension 2 or more whose descriptors
\* differ by more than 1 in some dimension
C6_Witness ==
    /\ dist # NoDist
    /\ f1.d = f2.d
    /\ f1.d >= 2
    /\ \E j \in 0 .. f1.d - 1 : f1.descr[j] - f2.descr[j] >= 2
    /\ dist.value >= 4
    /\ dist.reads # {}

----------------------------------------------------------------------------
(* Properties of array_double, checked under SpecArr *)

\* C7: when the reallocation fails array_double returns 0, the original
\* block is released exactly once and *array is NULL; when it succeeds it
\* returns 2*n and *array refers to the block realloc returned.
C7_FailureReturnsZeroFreesOnce ==
    ret # NoRet =>
        IF array = "NULL"
        THEN /\ ret = 0
             /\ array0 # "NULL" => released = 1
        ELSE /\ ret = 2 * n_arg
             /\ array \in {"orig", "new"}

----------------------------------------------------------------------------
(* Properties of vid_view, checked under SpecVid *)

\* C8: whenever a pass of the loop receives an Esc key, in the playing or
\* in the paused branch, the window is destroyed (so the loop condition
\* fails and vid_view returns).
C8_EscExits ==
    [][((PlayingIteration \/ PausedIteration) /\ k' \in EscKeys)
          => (~win')]_vars

\* C9: with n >= 1 images the index of the displayed frame stays within
\* 0 .. n-1, and a playing pass that leaves i at n-1 leaves playback
\* paused.
C9_IndexInRange ==
    vpc # "idle" =>
        /\ 0 <= i
        /\ i <= n - 1
        /\ (mode = "playing" /\ i = n - 1) => playing = 0

\* playback ran to the last of at least three frames without a space key
\* and paused there
C9_Witness ==
    /\ mode = "playing"
    /\ n >= 3
    /\ i = n - 1
    /\ k # SpaceKey
    /\ playing = 0

----------------------------------------------------------------------------
(* Properties of getOptFlow, checked under SpecFlow *)

\* OPTICAL_FLOW_POINT_AREA/2 + 1
Margin == CDiv(area, 2) + 1

\* the point is at least Margin pixels away from every border of the frame
FarFromBorder(frame) ==
    /\ p.row >= Margin
    /\ p.row <= frame.height - 1 - Margin
    /\ p.col >= Margin
    /\ p.col <= frame.width - 1 - Margin

FrameOf(name) == IF name = "currentFrame" THEN currentFrame ELSE preFrame

\* C10: when the point is at least OPTICAL_FLOW_POINT_AREA/2 + 1 pixels
\* away from every border of both frames, every pixel a loop body reads has
\* 0 <= row < height and 0 <= col < width of the frame it is read from.
C10_ReadsInsideFrames ==
    (FarFromBorder(currentFrame) /\ FarFromBorder(preFrame)) =>
        \A r \in reads :
            /\ 0 <= r[2]
            /\ r[2] < FrameOf(r[1]).height
            /\ 0 <= r[3]
            /\ r[3] < FrameOf(r[1]).width

\* a loop body of a point exactly Margin away from the top border, whose
\* reads reach row 0
C10_Witness ==
    /\ fpc = "loop"
    /\ FarFromBorder(currentFrame)
    /\ FarFromBorder(preFrame)
    /\ p.row = Margin
    /\ \E r \in reads : r[1] = "currentFrame" /\ r[2] = 0
    /\ \E r \in reads : r[1] = "preFrame"

====
